---- MODULE Spec2Model ----
(***************************************************************************)
(* update_ovh_ddns.py: one scheduled run after another of the OVH DDNS     *)
(* updater.  A run is the body of main(); the files it leaves behind       *)
(* (update_ovh_ddns.log, ipv6addr.txt) are the state carried from one run  *)
(* to the next.  Runs do not overlap.                                      *)
(*                                                                         *)
(* Text is a sequence of characters.  A file is <<>> when it does not      *)
(* exist and <<content>> when it does.  The log file's content is its      *)
(* sequence of lines, as readlines() returns it.                           *)
(***************************************************************************)
EXTENDS Integers, Sequences, FiniteSets, TLC

\* ---------------------------------------------------------------- bounds
\* Longest text the environment supplies (raw configured address, lookup output).
MaxLen == 3
\* Number of runs of the program in one behaviour.
MaxRuns == 2

\* ------------------------------------------------------------- constants
\* lines[-10:]
LogLimit == 10

\* VERSION = "1.0"
VERSION == <<"1", ".", "0">>

\* Characters of the modelled texts: one that is not whitespace, and the
\* line terminator, which str.strip() removes as whitespace.
Chars == {"a", "\n"}
Whitespace == {" ", "\n"}

RECURSIVE TextsOfLen(_)
TextsOfLen(n) ==
    IF n = 0 THEN {<<>>}
    ELSE {Append(t, c) : t \in TextsOfLen(n - 1), c \in Chars}

Texts == UNION {TextsOfLen(n) : n \in 0..MaxLen}

\* ------------------------------------------------------------- str.strip
RECURSIVE LStrip(_)
LStrip(s) ==
    IF s = <<>> THEN <<>>
    ELSE IF Head(s) \in Whitespace THEN LStrip(Tail(s))
    ELSE s

RECURSIVE RStrip(_)
RStrip(s) ==
    IF s = <<>> THEN <<>>
    ELSE IF s[Len(s)] \in Whitespace THEN RStrip(SubSeq(s, 1, Len(s) - 1))
    ELSE s

\* str.strip(): leading and trailing whitespace removed.
Strip(s) == RStrip(LStrip(s))

\* Number of "\n" inside a text.
RECURSIVE Newlines(_)
Newlines(s) ==
    IF s = <<>> THEN 0
    ELSE (IF Head(s) = "\n" THEN 1 ELSE 0) + Newlines(Tail(s))

VARIABLES
    pc,          \* position of the current run in main(); "exited" between runs
    runs,        \* number of runs started
    argv,        \* flags of the current run
    ipv6,        \* main's local ipv6
    last_ipv6,   \* main's local last_ipv6: <<>> is None, <<s>> a string
    cacheFile,   \* ipv6addr.txt
    logFile,     \* update_ovh_ddns.log, as lines
    logCalls,    \* number of log() calls so far; stands for the timestamp
    stdout,      \* what the current run printed
    exitCode,    \* <<>> while running, <<c>> once the process has ended
    env,         \* what the current run met: config file, curl's results
    did,         \* how often the current run took each step
    sent,        \* the addresses of the current run's update requests
    hist,        \* across runs: last address applied, last address refused
    cacheAtStart,
    logAtStart,
    histAtStart

vars == <<pc, runs, argv, ipv6, last_ipv6, cacheFile, logFile, logCalls, stdout,
          exitCode, env, did, sent, hist, cacheAtStart, logAtStart, histAtStart>>

\* ------------------------------------------------------------------- log
\* The lines of new_entry = "[timestamp] message\n" as a later readlines()
\* sees them: one more than the newlines inside the message.  n stands for
\* the timestamp, kind for the message's fixed wording, and arg is the
\* address the message embeds (<<>> when it embeds none).
EntryLines(n, kind, arg) ==
    [i \in 1..(1 + Newlines(arg)) |->
        [n |-> n, kind |-> kind, part |-> i, of |-> 1 + Newlines(arg)]]

RECURSIVE Flatten(_)
Flatten(ss) ==
    IF ss = <<>> THEN <<>> ELSE Head(ss) \o Flatten(Tail(ss))

\* lines[-k:]
LastN(s, k) ==
    IF Len(s) <= k THEN s ELSE SubSeq(s, Len(s) - k + 1, Len(s))

\* f.readlines() when the file exists, [] otherwise.
ReadLines(file) == IF file = <<>> THEN <<>> ELSE file[1]

\* log(message) on st = [file, calls, out]: read the lines, append the new
\* entry as one element, keep the last LogLimit elements, rewrite the file,
\* and echo the entry when verbose.
Log(st, verbose, kind, arg) ==
    LET n     == st.calls + 1
        lines == ReadLines(st.file)
        elems == [i \in 1..Len(lines) |-> <<lines[i]>>]
                     \o <<EntryLines(n, kind, arg)>>
    IN  [file  |-> <<Flatten(LastN(elems, LogLimit))>>,
         calls |-> n,
         out   |-> IF verbose
                   THEN Append(st.out, [kind |-> kind, arg |-> arg])
                   ELSE st.out]

\* The logger's state before a step, and its effect after it.
LogNow == [file |-> logFile, calls |-> logCalls, out |-> stdout]

Logged(st) ==
    /\ logFile' = st.file
    /\ logCalls' = st.calls
    /\ stdout' = st.out

\* VERBOSE = "--verbose" in sys.argv
VERBOSE == "--verbose" \in argv

\* ----------------------------------------------------------- environment
Flags == {"--verbose", "--version"}

\* config.txt as read_config finds it.  ipv6 is <<>> when the key is
\* absent and <<v>> when it is set to v.
Configs ==
    {[state |-> s, ipv6 |-> <<>>] : s \in {"missing", "unparsable", "incomplete"}}
    \cup {[state |-> "valid", ipv6 |-> v] : v \in {<<>>} \cup {<<t>> : t \in Texts}}

\* What subprocess.run(..., check=True) can do: return (exit status 0),
\* raise CalledProcessError (non-zero exit status), or raise OSError
\* because the client could not be started.
RunStatus == {"ok", "nonzero", "oserror"}

\* The lookup's curl, with its captured standard output.
LookupOutcomes ==
    {[status |-> "ok", out |-> t] : t \in Texts}
    \cup {[status |-> s, out |-> <<>>] : s \in {"nonzero", "oserror"}}

Steps == {"config", "lookup", "cacheRead", "cacheWrite"}

Count(step) == [did EXCEPT ![step] = @ + 1]

\* Nothing met yet: config.txt not looked at, curl not run.
NoEnv ==
    [config |-> "none", lookup |-> "none", update |-> "none"]

\* sys.exit(code), death by an uncaught exception (status 1), or main
\* returning (status 0).
Exit(code) ==
    /\ pc' = "exited"
    /\ exitCode' = <<code>>

Init ==
    /\ pc = "exited"
    /\ runs = 0
    /\ argv = {}
    /\ ipv6 = <<>>
    /\ last_ipv6 = <<>>
    /\ cacheFile = <<>>
    /\ logFile = <<>>
    /\ logCalls = 0
    /\ stdout = <<>>
    /\ exitCode = <<>>
    /\ env = NoEnv
    /\ did = [s \in Steps |-> 0]
    /\ sent = <<>>
    /\ hist = [applied |-> <<>>, refused |-> <<>>]
    /\ cacheAtStart = <<>>
    /\ logAtStart = <<>>
    /\ histAtStart = [applied |-> <<>>, refused |-> <<>>]

\* --------------------------------------------------------------- actions
\* A new process is started with flags a: `if __name__ == "__main__": main()`.
StartRun(a) ==
    /\ pc = "exited"
    /\ runs < MaxRuns
    /\ pc' = "main"
    /\ runs' = runs + 1
    /\ argv' = a
    /\ ipv6' = <<>>
    /\ last_ipv6' = <<>>
    /\ stdout' = <<>>
    /\ exitCode' = <<>>
    /\ env' = NoEnv
    /\ did' = [s \in Steps |-> 0]
    /\ sent' = <<>>
    /\ cacheAtStart' = cacheFile
    /\ logAtStart' = logFile
    /\ histAtStart' = hist
    /\ UNCHANGED <<cacheFile, logFile, logCalls, hist>>

\* main, lines 115-117: --version prints the version and exits 0.
main_version ==
    /\ pc = "main"
    /\ "--version" \in argv
    /\ stdout' = Append(stdout, [kind |-> "version", arg |-> VERSION])
    /\ Exit(0)
    /\ UNCHANGED <<runs, argv, ipv6, last_ipv6, cacheFile, logFile, logCalls,
                   env, did, sent, hist, cacheAtStart, logAtStart, histAtStart>>

\* read_config as it would be were --version handled after it.
read_config_before_version(cfg) ==
    /\ pc = "main"
    /\ did' = Count("config")
    /\ env' = [env EXCEPT !.config = cfg.state]
    /\ CASE cfg.state = "missing" ->
              /\ Logged(Log(LogNow, VERBOSE, "ConfigMissing", <<>>))
              /\ Exit(1)
              /\ UNCHANGED ipv6
         [] cfg.state = "unparsable" ->
              /\ Exit(1)
              /\ UNCHANGED <<ipv6, logFile, logCalls, stdout>>
         [] cfg.state = "incomplete" ->
              /\ Logged(Log(LogNow, VERBOSE, "ConfigError", <<>>))
              /\ Exit(1)
              /\ UNCHANGED ipv6
         [] cfg.state = "valid" ->
              /\ ipv6' = Strip(IF cfg.ipv6 = <<>> THEN <<>> ELSE cfg.ipv6[1])
              /\ pc' = "resolve"
              /\ UNCHANGED <<logFile, logCalls, stdout, exitCode>>
    /\ UNCHANGED <<runs, argv, last_ipv6, cacheFile, sent, hist, cacheAtStart,
                   logAtStart, histAtStart>>

\* read_config as it would be without the sys.exit(1) of line 44: the
\* missing file is logged and the defaults are used.
read_config_no_exit(cfg) ==
    /\ pc = "main"
    /\ "--version" \notin argv
    /\ did' = Count("config")
    /\ env' = [env EXCEPT !.config = cfg.state]
    /\ CASE cfg.state = "missing" ->
              /\ Logged(Log(LogNow, VERBOSE, "ConfigMissing", <<>>))
              /\ ipv6' = <<>>
              /\ pc' = "resolve"
              /\ UNCHANGED exitCode
         [] cfg.state = "unparsable" ->
              /\ Exit(1)
              /\ UNCHANGED <<ipv6, logFile, logCalls, stdout>>
         [] cfg.state = "incomplete" ->
              /\ Logged(Log(LogNow, VERBOSE, "ConfigError", <<>>))
              /\ Exit(1)
              /\ UNCHANGED ipv6
         [] cfg.state = "valid" ->
              /\ ipv6' = Strip(IF cfg.ipv6 = <<>> THEN <<>> ELSE cfg.ipv6[1])
              /\ pc' = "resolve"
              /\ UNCHANGED <<logFile, logCalls, stdout, exitCode>>
    /\ UNCHANGED <<runs, argv, last_ipv6, cacheFile, sent, hist, cacheAtStart,
                   logAtStart, histAtStart>>

\* read_config as it would be without the .strip() of line 54.
read_config_no_strip(cfg) ==
    /\ pc = "main"
    /\ "--version" \notin argv
    /\ did' = Count("config")
    /\ env' = [env EXCEPT !.config = cfg.state]
    /\ CASE cfg.state = "missing" ->
              /\ Logged(Log(LogNow, VERBOSE, "ConfigMissing", <<>>))
              /\ Exit(1)
              /\ UNCHANGED ipv6
         [] cfg.state = "unparsable" ->
              /\ Exit(1)
              /\ UNCHANGED <<ipv6, logFile, logCalls, stdout>>
         [] cfg.state = "incomplete" ->
              /\ Logged(Log(LogNow, VERBOSE, "ConfigError", <<>>))
              /\ Exit(1)
              /\ UNCHANGED ipv6
         [] cfg.state = "valid" ->
              /\ ipv6' = IF cfg.ipv6 = <<>> THEN <<>> ELSE cfg.ipv6[1]
              /\ pc' = "resolve"
              /\ UNCHANGED <<logFile, logCalls, stdout, exitCode>>
    /\ UNCHANGED <<runs, argv, last_ipv6, cacheFile, sent, hist, cacheAtStart,
                   logAtStart, histAtStart>>

\* read_config() with config.txt in state cfg.
read_config(cfg) ==
    /\ pc = "main"
    /\ "--version" \notin argv
    /\ did' = Count("config")
    /\ env' = [env EXCEPT !.config = cfg.state]
    /\ CASE cfg.state = "missing" ->
              /\ Logged(Log(LogNow, VERBOSE, "ConfigMissing", <<>>))
              /\ Exit(1)
              /\ UNCHANGED ipv6
         [] cfg.state = "unparsable" ->
              \* config.read() raises outside the try block: nothing is
              \* logged, the interpreter ends the process with status 1
              /\ Exit(1)
              /\ UNCHANGED <<ipv6, logFile, logCalls, stdout>>
         [] cfg.state = "incomplete" ->
              /\ Logged(Log(LogNow, VERBOSE, "ConfigError", <<>>))
              /\ Exit(1)
              /\ UNCHANGED ipv6
         [] cfg.state = "valid" ->
              \* config.get("ovh", "ipv6", fallback="").strip()
              /\ ipv6' = Strip(IF cfg.ipv6 = <<>> THEN <<>> ELSE cfg.ipv6[1])
              /\ pc' = "resolve"
              /\ UNCHANGED <<logFile, logCalls, stdout, exitCode>>
    /\ UNCHANGED <<runs, argv, last_ipv6, cacheFile, sent, hist, cacheAtStart,
                   logAtStart, histAtStart>>

\* main, line 121: a configured address is used as it is.
main_static ==
    /\ pc = "resolve"
    /\ ipv6 # <<>>
    /\ pc' = "read_last"
    /\ UNCHANGED <<runs, argv, ipv6, last_ipv6, cacheFile, logFile, logCalls,
                   stdout, exitCode, env, did, sent, hist, cacheAtStart,
                   logAtStart, histAtStart>>

\* main, lines 121-122: get_ipv6_from_site(url_lookup), curl ending as res.
get_ipv6_from_site(res) ==
    /\ pc = "resolve"
    /\ ipv6 = <<>>
    /\ did' = Count("lookup")
    /\ env' = [env EXCEPT !.lookup = res.status]
    /\ CASE res.status = "ok" ->
              /\ ipv6' = Strip(res.out)
              /\ Logged(Log(LogNow, VERBOSE, "Obtained", Strip(res.out)))
              /\ pc' = "read_last"
              /\ UNCHANGED exitCode
         [] res.status = "nonzero" ->
              /\ Logged(Log(LogNow, VERBOSE, "LookupError", <<>>))
              /\ Exit(1)
              /\ UNCHANGED ipv6
         [] res.status = "oserror" ->
              \* only CalledProcessError is caught: nothing is logged, the
              \* interpreter ends the process with status 1
              /\ Exit(1)
              /\ UNCHANGED <<ipv6, logFile, logCalls, stdout>>
    /\ UNCHANGED <<runs, argv, last_ipv6, cacheFile, sent, hist, cacheAtStart,
                   logAtStart, histAtStart>>

\* read_last_ipv6 as it would be were it to look for a file that is never
\* there.
read_last_ipv6_none ==
    /\ pc = "read_last"
    /\ last_ipv6' = <<>>
    /\ did' = Count("cacheRead")
    /\ pc' = "compare"
    /\ UNCHANGED <<runs, argv, ipv6, cacheFile, logFile, logCalls, stdout,
                   exitCode, env, sent, hist, cacheAtStart, logAtStart,
                   histAtStart>>

\* read_last_ipv6(): the stripped content of the cache file, None without it.
read_last_ipv6 ==
    /\ pc = "read_last"
    /\ last_ipv6' = IF cacheFile = <<>> THEN <<>> ELSE <<Strip(cacheFile[1])>>
    /\ did' = Count("cacheRead")
    /\ pc' = "compare"
    /\ UNCHANGED <<runs, argv, ipv6, cacheFile, logFile, logCalls, stdout,
                   exitCode, env, sent, hist, cacheAtStart, logAtStart,
                   histAtStart>>

\* The comparison with != typed for ==.
NoChangeNegated(last, cur) == last # <<>> /\ last[1] # <<>> /\ cur # last[1]

\* `last_ipv6 and ipv6 == last_ipv6`: None and "" are both falsy.
NoChange(last, cur) == last # <<>> /\ last[1] # <<>> /\ cur = last[1]

\* main_compare as it would be were a missing cache file taken for "no
\* change".
main_compare_skip_absent ==
    /\ pc = "compare"
    /\ IF last_ipv6 = <<>> \/ NoChange(last_ipv6, ipv6)
       THEN /\ Logged(Log(LogNow, VERBOSE, "NoChange", ipv6))
            /\ Exit(0)
       ELSE /\ pc' = "update"
            /\ UNCHANGED <<logFile, logCalls, stdout, exitCode>>
    /\ UNCHANGED <<runs, argv, ipv6, last_ipv6, cacheFile, env, did, sent, hist,
                   cacheAtStart, logAtStart, histAtStart>>

\* main, lines 126-128.
main_compare ==
    /\ pc = "compare"
    /\ IF NoChange(last_ipv6, ipv6)
       THEN /\ Logged(Log(LogNow, VERBOSE, "NoChange", ipv6))
            /\ Exit(0)
       ELSE /\ pc' = "update"
            /\ UNCHANGED <<logFile, logCalls, stdout, exitCode>>
    /\ UNCHANGED <<runs, argv, ipv6, last_ipv6, cacheFile, env, did, sent, hist,
                   cacheAtStart, logAtStart, histAtStart>>

\* update_ovh_dns as it would be without the sys.exit(1) of line 96.
update_ovh_dns_no_exit(status) ==
    /\ pc = "update"
    /\ env' = [env EXCEPT !.update = status]
    /\ sent' = Append(sent, ipv6)
    /\ LET announced == Log(LogNow, VERBOSE, "Updating", ipv6)
       IN  CASE status = "ok" ->
                  /\ Logged(Log(announced, VERBOSE, "UpdateComplete", <<>>))
                  /\ hist' = [applied |-> <<ipv6>>, refused |-> <<>>]
                  /\ pc' = "write"
                  /\ UNCHANGED exitCode
             [] status = "nonzero" ->
                  /\ Logged(Log(announced, VERBOSE, "UpdateFailed", <<>>))
                  /\ hist' = [hist EXCEPT !.refused = <<ipv6>>]
                  /\ pc' = "write"
                  /\ UNCHANGED exitCode
             [] status = "oserror" ->
                  /\ Logged(announced)
                  /\ hist' = [hist EXCEPT !.refused = <<ipv6>>]
                  /\ Exit(1)
    /\ UNCHANGED <<runs, argv, ipv6, last_ipv6, cacheFile, did, cacheAtStart,
                   logAtStart, histAtStart>>

\* update_ovh_dns(username, password, hostname, ipv6), curl ending with status.
update_ovh_dns(status) ==
    /\ pc = "update"
    /\ env' = [env EXCEPT !.update = status]
    /\ sent' = Append(sent, ipv6)
    /\ LET announced == Log(LogNow, VERBOSE, "Updating", ipv6)
       IN  CASE status = "ok" ->
                  /\ Logged(Log(announced, VERBOSE, "UpdateComplete", <<>>))
                  /\ hist' = [applied |-> <<ipv6>>, refused |-> <<>>]
                  /\ pc' = "write"
                  /\ UNCHANGED exitCode
             [] status = "nonzero" ->
                  /\ Logged(Log(announced, VERBOSE, "UpdateFailed", <<>>))
                  /\ hist' = [hist EXCEPT !.refused = <<ipv6>>]
                  /\ Exit(1)
             [] status = "oserror" ->
                  \* only CalledProcessError is caught
                  /\ Logged(announced)
                  /\ hist' = [hist EXCEPT !.refused = <<ipv6>>]
                  /\ Exit(1)
    /\ UNCHANGED <<runs, argv, ipv6, last_ipv6, cacheFile, did, cacheAtStart,
                   logAtStart, histAtStart>>

\* write_current_ipv6 as it would be with the file opened in mode "a".
write_current_ipv6_append ==
    /\ pc = "write"
    /\ cacheFile' = <<(IF cacheFile = <<>> THEN <<>> ELSE cacheFile[1]) \o Strip(ipv6)>>
    /\ did' = Count("cacheWrite")
    /\ pc' = "stored"
    /\ UNCHANGED <<runs, argv, ipv6, last_ipv6, logFile, logCalls, stdout,
                   exitCode, env, sent, hist, cacheAtStart, logAtStart,
                   histAtStart>>

\* write_current_ipv6(ipv6)
write_current_ipv6 ==
    /\ pc = "write"
    /\ cacheFile' = <<Strip(ipv6)>>
    /\ did' = Count("cacheWrite")
    /\ pc' = "stored"
    /\ UNCHANGED <<runs, argv, ipv6, last_ipv6, logFile, logCalls, stdout,
                   exitCode, env, sent, hist, cacheAtStart, logAtStart,
                   histAtStart>>

\* main, line 132, and the return from main.
main_stored ==
    /\ pc = "stored"
    /\ Logged(Log(LogNow, VERBOSE, "Stored", ipv6))
    /\ Exit(0)
    /\ UNCHANGED <<runs, argv, ipv6, last_ipv6, cacheFile, env, did, sent, hist,
                   cacheAtStart, logAtStart, histAtStart>>

Next ==
    \/ \E a \in SUBSET Flags : StartRun(a)
    \/ main_version
    \/ \E cfg \in Configs : read_config(cfg)
    \/ main_static
    \/ \E res \in LookupOutcomes : get_ipv6_from_site(res)
    \/ read_last_ipv6
    \/ main_compare
    \/ \E status \in RunStatus : update_ovh_dns(status)
    \/ write_current_ipv6
    \/ main_stored

Spec == Init /\ [][Next]_vars

\* ---------------------------------------------------------------- claims
NoneDone == [s \in Steps |-> 0]

\* The current run has ended.
RunOver == pc = "exited" /\ runs > 0

\* The current run has made the comparison of line 126.
Compared ==
    \/ pc \in {"update", "write", "stored"}
    \/ pc = "exited" /\ did["cacheRead"] = 1

\* The number of the newest entry of a log file, 0 without a file.
CallsOf(file) ==
    IF file = <<>> \/ file[1] = <<>> THEN 0 ELSE file[1][Len(file[1])].n

\* The current run's newest log entry is of this kind and ends the file.
Appended(kind) ==
    /\ logFile # <<>>
    /\ logFile[1] # <<>>
    /\ logFile[1][Len(logFile[1])].kind = kind
    /\ CallsOf(logFile) = logCalls
    /\ CallsOf(logFile) > CallsOf(logAtStart)

\* t is raw without its leading and trailing whitespace, said without Strip.
IsTrimOf(t, raw) ==
    /\ t = <<>> \/ (t[1] \notin Whitespace /\ t[Len(t)] \notin Whitespace)
    /\ \E i \in 0..Len(raw) : \E j \in i..Len(raw) :
          /\ t = SubSeq(raw, i + 1, j)
          /\ \A k \in 1..i : raw[k] \in Whitespace
          /\ \A k \in (j + 1)..Len(raw) : raw[k] \in Whitespace

\* C1: when the update's client returns a non-zero exit status, the run has
\* ended with exit code 1, the failure is the newest log entry, the cache
\* file was not written and holds what it held when the run started.
C1_FailedUpdateKeepsCache ==
    env.update = "nonzero" =>
        /\ RunOver
        /\ exitCode = <<1>>
        /\ Appended("UpdateFailed")
        /\ did["cacheWrite"] = 0
        /\ cacheFile = cacheAtStart

C1_Witness ==
    /\ env.update = "nonzero"
    /\ RunOver
    /\ cacheAtStart # <<>>
    /\ cacheAtStart[1] # <<>>
    /\ sent # <<cacheAtStart[1]>>

\* C2 as claimed: whenever the address read from the cache file equals the
\* current address, whatever string the two are, the run has ended with exit
\* code 0 and a skip message, no update request was issued and the cache
\* file is as it was.
C2_EqualAlwaysSkips ==
    (Compared /\ last_ipv6 = <<ipv6>>) =>
        /\ RunOver
        /\ exitCode = <<0>>
        /\ Appended("NoChange")
        /\ sent = <<>>
        /\ did["cacheWrite"] = 0
        /\ cacheFile = cacheAtStart

\* C2 as amended: whenever the address read from the cache file is not empty
\* and equals the current address, the run has ended with exit code 0 and a
\* skip message, no update request was issued and the cache file is as it
\* was.
C2_EqualNonEmptySkips ==
    (Compared /\ last_ipv6 = <<ipv6>> /\ ipv6 # <<>>) =>
        /\ RunOver
        /\ exitCode = <<0>>
        /\ Appended("NoChange")
        /\ sent = <<>>
        /\ did["cacheWrite"] = 0
        /\ cacheFile = cacheAtStart

C2_Witness ==
    /\ RunOver
    /\ Compared
    /\ last_ipv6 = <<ipv6>>
    /\ ipv6 # <<>>
    /\ sent = <<>>

\* C3: a run never issues more than one update request; a run that found
\* the cached address absent or different from the current one has issued
\* exactly one request, for the current address, by the time it ends; the
\* cache file is written at most once and only after that request
\* succeeded; and the cache file never holds the new address while the
\* request has not succeeded.
C3_OneUpdateBeforeWrite ==
    /\ Len(sent) <= 1
    /\ (Compared /\ (last_ipv6 = <<>> \/ last_ipv6[1] # ipv6)) =>
          /\ RunOver => sent = <<ipv6>>
          /\ did["cacheWrite"] <= 1
          /\ did["cacheWrite"] = 1 => (sent = <<ipv6>> /\ env.update = "ok")
          /\ cacheFile = <<ipv6>> => env.update = "ok"
          /\ env.update # "ok" => cacheFile = cacheAtStart

C3_Witness ==
    /\ RunOver
    /\ Compared
    /\ last_ipv6 # <<>>
    /\ last_ipv6[1] # <<>>
    /\ last_ipv6[1] # ipv6
    /\ sent = <<ipv6>>
    /\ cacheFile = <<ipv6>>

\* C4 as claimed: after any number n of log calls the log file holds at
\* most LogLimit entries, and they are exactly the newest min(n, LogLimit)
\* entries logged, each whole, oldest first.
C4_LogHoldsNewestEntries ==
    LET lines  == ReadLines(logFile)
        oldest == IF logCalls > LogLimit THEN logCalls - LogLimit + 1 ELSE 1
    IN  /\ {lines[i].n : i \in DOMAIN lines} = oldest..logCalls
        /\ \A i \in DOMAIN lines : \A p \in 1..lines[i].of :
              \E j \in DOMAIN lines : lines[j].n = lines[i].n /\ lines[j].part = p
        /\ \A i \in DOMAIN lines : \A j \in DOMAIN lines :
              i < j => \/ lines[i].n < lines[j].n
                       \/ lines[i].n = lines[j].n /\ lines[i].part < lines[j].part

\* C5: a run given --version reads no configuration, looks nothing up,
\* reads and writes no cache file, sends no update request and leaves the
\* log file and the cache file as they were; when it has ended it has
\* printed the version string, and nothing else, and its exit code is 0.
C5_VersionTouchesNothing ==
    "--version" \in argv =>
        /\ pc \in {"main", "exited"}
        /\ did = NoneDone
        /\ env = NoEnv
        /\ sent = <<>>
        /\ logFile = logAtStart
        /\ cacheFile = cacheAtStart
        /\ pc = "exited" =>
              /\ exitCode = <<0>>
              /\ stdout = <<[kind |-> "version", arg |-> VERSION]>>

C5_Witness ==
    /\ argv = {"--version", "--verbose"}
    /\ pc = "exited"
    /\ logAtStart # <<>>
    /\ cacheAtStart # <<>>

\* C6: when config.txt does not exist, the run has ended with exit code 1
\* having appended exactly one log entry, which reports the missing file;
\* no lookup was made, the cache file was neither read nor written and no
\* update request was sent.
C6_MissingConfigStopsRun ==
    env.config = "missing" =>
        /\ RunOver
        /\ exitCode = <<1>>
        /\ Appended("ConfigMissing")
        /\ CallsOf(logFile) = CallsOf(logAtStart) + 1
        /\ did["lookup"] = 0
        /\ did["cacheRead"] = 0
        /\ did["cacheWrite"] = 0
        /\ sent = <<>>
        /\ cacheFile = cacheAtStart

C6_Witness ==
    /\ env.config = "missing"
    /\ RunOver
    /\ logAtStart # <<>>
    /\ cacheAtStart # <<>>

\* C7: read_config, given a valid configuration, leaves in ipv6 the
\* configured value without its leading and trailing whitespace (the empty
\* text when the key is absent); the lookup is made exactly when that value
\* is empty; a value that is not empty stays the run's current address, and
\* it is the address every update request of the run is sent for.
C7_StaticAddressUsed ==
    [][ /\ \A cfg \in Configs :
              (cfg.state = "valid" /\ read_config(cfg)) =>
                  /\ IsTrimOf(ipv6', IF cfg.ipv6 = <<>> THEN <<>> ELSE cfg.ipv6[1])
                  /\ did'["lookup"] = 0
                  /\ pc' = "resolve"
        /\ (pc = "resolve" /\ pc' # "resolve") =>
              /\ did'["lookup"] = 1 <=> ipv6 = <<>>
              /\ ipv6 # <<>> => (ipv6' = ipv6 /\ pc' = "read_last")
        /\ pc \in {"read_last", "compare", "update", "write", "stored"} =>
              /\ ipv6' = ipv6
              /\ did'["lookup"] = did["lookup"]
        /\ sent' # sent => (pc' = "main" \/ sent' = Append(sent, ipv6))
      ]_vars

C7_Witness ==
    /\ RunOver
    /\ env.config = "valid"
    /\ did["lookup"] = 0
    /\ ipv6 # <<>>
    /\ sent = <<ipv6>>
    /\ env.update = "ok"

\* The fatal condition the current run has met, and the log entry for it.
FatalMet ==
    \/ env.config \in {"missing", "unparsable", "incomplete"}
    \/ env.lookup \in {"nonzero", "oserror"}
    \/ env.update = "nonzero"

ErrorKind ==
    CASE env.config = "missing" -> "ConfigMissing"
      [] env.config \in {"unparsable", "incomplete"} -> "ConfigError"
      [] env.lookup \in {"nonzero", "oserror"} -> "LookupError"
      [] OTHER -> "UpdateFailed"

\* C8 as claimed: whenever a run has met a fatal condition (configuration
\* missing, configuration invalid or unparsable, lookup failed or its client
\* not startable, update refused), it has ended with exit code 1, its newest
\* log entry reports that error, and no later step of the sequence was taken.
C8_EveryFatalIsLogged ==
    FatalMet =>
        /\ RunOver
        /\ exitCode = <<1>>
        /\ Appended(ErrorKind)
        /\ did["cacheWrite"] = 0
        /\ env.update # "nonzero" => (did["cacheRead"] = 0 /\ sent = <<>>)
        /\ env.config # "valid" => did["lookup"] = 0

\* C9: a run without --version that has ended with exit code 0 leaves the
\* cache file holding exactly the run's current address; and a run that
\* found no cache file has, when it ends after the comparison, sent one
\* update request for the current address, and if that succeeded the cache
\* file holds the current address and the exit code is 0.
C9_SuccessLeavesCacheCurrent ==
    /\ (RunOver /\ exitCode = <<0>> /\ "--version" \notin argv) =>
          cacheFile = <<ipv6>>
    /\ (RunOver /\ Compared /\ cacheAtStart = <<>>) =>
          /\ sent = <<ipv6>>
          /\ env.update = "ok" => (cacheFile = <<ipv6>> /\ exitCode = <<0>>)

C9_Witness ==
    /\ RunOver
    /\ exitCode = <<0>>
    /\ cacheAtStart # <<>>
    /\ cacheAtStart # cacheFile
    /\ env.lookup = "ok"
    /\ ipv6 # <<>>
    /\ cacheFile = <<ipv6>>

\* C10: (a) in a run that starts after a successful update for a non-empty
\* address A, with no successful update since, and whose current address is
\* A, the comparison ends the run: no update request, no cache write, the
\* cache file as it was; (b) a run that sends an update request after a
\* successful update for a non-empty address has read that address from the
\* cache and has a different current address; (c) a run that starts after
\* an update request for A failed, with no update request since, and whose
\* current address is A, has sent an update request for A when it ends.
C10_SkipUntilAddressChanges ==
    /\ (Compared /\ histAtStart.applied = <<ipv6>> /\ ipv6 # <<>>) =>
          /\ RunOver
          /\ exitCode = <<0>>
          /\ sent = <<>>
          /\ did["cacheWrite"] = 0
          /\ cacheFile = cacheAtStart
    /\ (sent # <<>> /\ histAtStart.applied # <<>> /\ histAtStart.applied # <<<<>>>>) =>
          /\ last_ipv6 = histAtStart.applied
          /\ ipv6 # histAtStart.applied[1]
    /\ (RunOver /\ Compared /\ histAtStart.refused = <<ipv6>>) =>
          sent = <<ipv6>>

C10_Witness ==
    /\ RunOver
    /\ Compared
    /\ histAtStart.applied = <<ipv6>>
    /\ ipv6 # <<>>
    /\ sent = <<>>

\* Part (c) of C10 happens too: a retry after a failed request.
C10_WitnessRetry ==
    /\ RunOver
    /\ Compared
    /\ histAtStart.refused = <<ipv6>>
    /\ ipv6 # <<>>
    /\ sent = <<ipv6>>

====
